---- MODULE Spec2Model ----
(***************************************************************************)
(* Model of 2_local_snowflake_csv_loader.py: the batch loader that stages  *)
(* every .csv entry of sample_data/<argv[1]> and copies it into one of     *)
(* three warehouse tables chosen from the file name, and the connectivity  *)
(* self-test run selected by argv[1] == "test".                            *)
(*                                                                         *)
(* File names are sequences of one-character strings, so that lower(),     *)
(* the substring tests and endswith() are computed character by character. *)
(* Every call into the warehouse client either returns or raises.          *)
(***************************************************************************)
EXTENDS Integers, Sequences, FiniteSets, TLC

VARIABLES argv1, dirKind, listing, pc, idx, connOpen, exc, log

vars == <<argv1, dirKind, listing, pc, idx, connOpen, exc, log>>

(* ------------------------------ bounds --------------------------------- *)

MaxFiles == 3
MaxFrags == 2

(* --------------------------- characters -------------------------------- *)

UpperCh == <<"A","B","C","D","E","F","G","H","I","J","K","L","M",
             "N","O","P","Q","R","S","T","U","V","W","X","Y","Z">>
LowerCh == <<"a","b","c","d","e","f","g","h","i","j","k","l","m",
             "n","o","p","q","r","s","t","u","v","w","x","y","z">>

\* str.lower() on one (ASCII) character
ToLower(c) ==
  IF \E i \in DOMAIN UpperCh : UpperCh[i] = c
  THEN LowerCh[CHOOSE i \in DOMAIN UpperCh : UpperCh[i] = c]
  ELSE c

\* filename.lower()
Lower(s) == [i \in DOMAIN s |-> ToLower(s[i])]

\* Python's   m in s   on strings: m occurs in s as a contiguous substring
Contains(s, m) ==
  \E p \in 1..(Len(s) - Len(m) + 1) : SubSeq(s, p, p + Len(m) - 1) = m

\* Python's   s.endswith(m)   (case-sensitive)
EndsWith(s, m) ==
  /\ Len(s) >= Len(m)
  /\ SubSeq(s, Len(s) - Len(m) + 1, Len(s)) = m

(* ---------------------------- literals --------------------------------- *)

user_profile == <<"u","s","e","r","_","p","r","o","f","i","l","e">>
order_book   == <<"o","r","d","e","r","_","b","o","o","k">>
trade        == <<"t","r","a","d","e">>
dotcsv       == <<".","c","s","v">>

USER_PROFILES == "USER_PROFILES"
ORDER_BOOK    == "ORDER_BOOK"
USER_TRADES   == "USER_TRADES"
Unknown       == "Unknown"

(* ------------------------ routing of load_file ------------------------- *)

\* line 97-105 with the tests made on the name as given, lower() left out
RouteNoLower(filename) ==
  IF Contains(filename, user_profile) THEN USER_PROFILES
  ELSE IF Contains(filename, order_book) THEN ORDER_BOOK
  ELSE IF Contains(filename, trade) THEN USER_TRADES
  ELSE Unknown

\* line 97-105 with the trade test moved before the order_book test
RouteTradeFirst(filename) ==
  IF Contains(Lower(filename), user_profile) THEN USER_PROFILES
  ELSE IF Contains(Lower(filename), trade) THEN USER_TRADES
  ELSE IF Contains(Lower(filename), order_book) THEN ORDER_BOOK
  ELSE Unknown

\* line 97-105: the table load_file copies the file into, or Unknown
Route(filename) ==
  IF Contains(Lower(filename), user_profile) THEN USER_PROFILES
  ELSE IF Contains(Lower(filename), order_book) THEN ORDER_BOOK
  ELSE IF Contains(Lower(filename), trade) THEN USER_TRADES
  ELSE Unknown

\* line 109 with the argument compared ignoring case
IsSelfTestAnyCase(arg) == arg \in {"test", "TEST"}

\* line 109: sys.argv[1] == "test"
IsSelfTest(arg) == arg = "test"

(* ------------------------------ inputs --------------------------------- *)

\* pieces file names are put together from
Frags ==
  { user_profile,
    <<"U","s","e","r","_","P","r","o","f","i","l","e","s">>,
    order_book,
    <<"O","R","D","E","R","_","B","O","O","K">>,
    trade,
    <<"T","r","a","d","E","S">>,
    <<"t","r","a">>,
    <<"d","e","_">>,
    <<"d","a","t","a">> }

Exts == { dotcsv, <<".","C","S","V">>, <<".","t","x","t">>,
          <<".","c","s","v",".","b","a","k">> }

RECURSIVE Stems(_)
Stems(n) ==
  IF n = 0 THEN { <<>> }
  ELSE Stems(n - 1) \cup { s \o f : s \in Stems(n - 1), f \in Frags }

AllNames == { s \o e : s \in Stems(MaxFrags), e \in Exts }

\* names used in listings of several files
BatchNames ==
  { user_profile \o dotcsv,
    order_book \o dotcsv,
    trade \o dotcsv,
    <<"T","R","A","D","E">> \o dotcsv,
    <<"d","a","t","a">> \o dotcsv,
    <<"d","a","t","a">> \o <<".","t","x","t">>,
    trade \o <<".","C","S","V">> }

\* os.listdir: distinct names, in any order
RECURSIVE ListingsOver(_, _)
ListingsOver(S, n) ==
  IF n = 0 THEN { <<>> }
  ELSE LET shorter == ListingsOver(S, n - 1)
       IN  shorter \cup { Append(l, x) : l \in { m \in shorter : Len(m) = n - 1 },
                                          x \in S }

Distinct(l) == \A i, j \in DOMAIN l : i # j => l[i] # l[j]

Listings ==
  { l \in ListingsOver(BatchNames, MaxFiles) : Distinct(l) }
    \cup { <<n>> : n \in AllNames }

Args == { "test", "TEST", "batch1" }

DirKinds == { "missing", "file", "dir" }

(* ------------------------------ events --------------------------------- *)

\* one call made on the warehouse client, or one status line printed
Ev(op, i, t) == [op |-> op, idx |-> i, table |-> t]

NoExc == "none"

Init ==
  /\ argv1 \in Args
  /\ dirKind \in DirKinds
  /\ listing \in IF dirKind = "dir" THEN Listings ELSE { <<>> }
  /\ pc = "main"
  /\ idx = 0
  /\ connOpen = FALSE
  /\ exc = NoExc
  /\ log = <<>>

(* ------------------------- self-test run ------------------------------- *)

\* line 109-110: argv[1] == "test", create_snowflake_connection(test_mode=True)
TestConnect ==
  /\ pc = "main"
  /\ IsSelfTest(argv1)
  /\ \/ /\ connOpen' = TRUE
        /\ log' = Append(log, Ev("connect", 0, ""))
        /\ pc' = "test_cursor"
        /\ exc' = exc
     \/ /\ connOpen' = connOpen
        /\ log' = Append(log, Ev("connect_raise", 0, ""))
        /\ pc' = "done"
        /\ exc' = "connect"
  /\ UNCHANGED <<argv1, dirKind, listing, idx>>

\* line 111: conn.cursor()
TestCursor ==
  /\ pc = "test_cursor"
  /\ \/ /\ log' = Append(log, Ev("cursor", 0, ""))
        /\ pc' = "test_query"
        /\ exc' = exc
     \/ /\ log' = Append(log, Ev("cursor_raise", 0, ""))
        /\ pc' = "done"
        /\ exc' = "cursor"
  /\ UNCHANGED <<argv1, dirKind, listing, idx, connOpen>>

\* line 114-116: SELECT CURRENT_VERSION(), fetchone, print
TestQuery ==
  /\ pc = "test_query"
  /\ \/ /\ log' = Append(log, Ev("version", 0, "")) \o <<Ev("version_done", 0, "")>>
        /\ pc' = "test_cursor_close"
        /\ exc' = exc
     \/ /\ log' = Append(log, Ev("version", 0, "")) \o <<Ev("version_raise", 0, "")>>
        /\ pc' = "done"
        /\ exc' = "query"
  /\ UNCHANGED <<argv1, dirKind, listing, idx, connOpen>>

\* line 118: cursor.close()
TestCursorClose ==
  /\ pc = "test_cursor_close"
  /\ \/ /\ log' = Append(log, Ev("cursor_close", 0, ""))
        /\ pc' = "test_conn_close"
        /\ exc' = exc
     \/ /\ log' = Append(log, Ev("cursor_close_raise", 0, ""))
        /\ pc' = "done"
        /\ exc' = "cursor_close"
  /\ UNCHANGED <<argv1, dirKind, listing, idx, connOpen>>

\* line 119-120: conn.close(); return
TestConnClose ==
  /\ pc = "test_conn_close"
  /\ connOpen' = FALSE
  /\ log' = Append(log, Ev("conn_close", 0, ""))
  /\ pc' = "done"
  /\ UNCHANGED <<argv1, dirKind, listing, idx, exc>>

(* ----------------------------- load run -------------------------------- *)

\* line 123 with the connection opened inside the try
LoadConnectInTry ==
  /\ pc = "main"
  /\ ~IsSelfTest(argv1)
  /\ \/ /\ connOpen' = TRUE
        /\ log' = Append(log, Ev("connect", 0, ""))
        /\ pc' = "load_cursor"
        /\ exc' = exc
     \/ /\ connOpen' = connOpen
        /\ log' = Append(log, Ev("connect_raise", 0, ""))
        /\ pc' = "finally"
        /\ exc' = "connect"
  /\ UNCHANGED <<argv1, dirKind, listing, idx>>

\* line 123: create_snowflake_connection(), outside the try
LoadConnect ==
  /\ pc = "main"
  /\ ~IsSelfTest(argv1)
  /\ \/ /\ connOpen' = TRUE
        /\ log' = Append(log, Ev("connect", 0, ""))
        /\ pc' = "load_cursor"
        /\ exc' = exc
     \/ /\ connOpen' = connOpen
        /\ log' = Append(log, Ev("connect_raise", 0, ""))
        /\ pc' = "done"
        /\ exc' = "connect"
  /\ UNCHANGED <<argv1, dirKind, listing, idx>>

\* line 124: conn.cursor(), outside the try
LoadCursor ==
  /\ pc = "load_cursor"
  /\ \/ /\ log' = Append(log, Ev("cursor", 0, ""))
        /\ pc' = "try"
        /\ exc' = exc
     \/ /\ log' = Append(log, Ev("cursor_raise", 0, ""))
        /\ pc' = "done"
        /\ exc' = "cursor"
  /\ UNCHANGED <<argv1, dirKind, listing, idx, connOpen>>

\* line 126-131 with os.listdir called without the os.path.exists test
EnterTryNoExistsTest ==
  /\ pc = "try"
  /\ CASE dirKind \in {"missing", "file"} -> /\ pc' = "finally"
                                             /\ idx' = idx
                                             /\ exc' = "listdir"
       [] dirKind = "dir"                  -> /\ pc' = "for"
                                             /\ idx' = 1
                                             /\ exc' = exc
  /\ UNCHANGED <<argv1, dirKind, listing, connOpen, log>>

\* line 126-131: os.path.exists, os.listdir
EnterTry ==
  /\ pc = "try"
  /\ CASE dirKind = "missing" -> /\ pc' = "completed"
                                 /\ idx' = idx
                                 /\ exc' = exc
       [] dirKind = "file"    -> /\ pc' = "finally"
                                 /\ idx' = idx
                                 /\ exc' = "listdir"
       [] dirKind = "dir"     -> /\ pc' = "for"
                                 /\ idx' = 1
                                 /\ exc' = exc
  /\ UNCHANGED <<argv1, dirKind, listing, connOpen, log>>

\* line 131-134 with the .csv test left out
ForEveryEntry ==
  /\ pc = "for"
  /\ IF idx > Len(listing)
     THEN /\ pc' = "completed"
          /\ idx' = idx
     ELSE /\ pc' = "load_file"
          /\ idx' = idx
  /\ UNCHANGED <<argv1, dirKind, listing, connOpen, exc, log>>

\* line 131-134: next entry of the listing, filename.endswith('.csv')
For ==
  /\ pc = "for"
  /\ IF idx > Len(listing)
     THEN /\ pc' = "completed"
          /\ idx' = idx
     ELSE IF EndsWith(listing[idx], dotcsv)
          THEN /\ pc' = "load_file"
               /\ idx' = idx
          ELSE /\ pc' = "for"
               /\ idx' = idx + 1
  /\ UNCHANGED <<argv1, dirKind, listing, connOpen, exc, log>>

\* line 95 with the PUT not awaited
UploadNoWait ==
  /\ pc = "load_file"
  /\ log' = Append(log, Ev("put", idx, ""))
  /\ pc' = "route"
  /\ UNCHANGED <<argv1, dirKind, listing, idx, connOpen, exc>>

\* line 135, 95, 38: load_file calls upload_file, which issues the PUT
Upload ==
  /\ pc = "load_file"
  /\ log' = Append(log, Ev("put", idx, ""))
  /\ pc' = "uploading"
  /\ UNCHANGED <<argv1, dirKind, listing, idx, connOpen, exc>>

\* line 38: the PUT returns or raises
UploadReturn ==
  /\ pc = "uploading"
  /\ \/ /\ log' = Append(log, Ev("put_done", idx, ""))
        /\ pc' = "route"
        /\ exc' = exc
     \/ /\ log' = Append(log, Ev("put_raise", idx, ""))
        /\ pc' = "finally"
        /\ exc' = "put"
  /\ UNCHANGED <<argv1, dirKind, listing, idx, connOpen>>

\* line 97-105 with the unknown branch raising instead of printing
RouteFileUnknownRaises ==
  /\ pc = "route"
  /\ LET t == Route(listing[idx])
     IN  IF t = Unknown
         THEN /\ log' = Append(log, Ev("unknown", idx, Unknown))
              /\ pc' = "finally"
              /\ idx' = idx
              /\ exc' = "copy"
         ELSE /\ log' = Append(log, Ev("copy", idx, t))
              /\ pc' = "loading"
              /\ idx' = idx
              /\ exc' = exc
  /\ UNCHANGED <<argv1, dirKind, listing, connOpen>>

\* line 97-105: route on the file name; a COPY INTO is issued, or the file is
\* reported as unknown and load_file returns
RouteFile ==
  /\ pc = "route"
  /\ LET t == Route(listing[idx])
     IN  IF t = Unknown
         THEN /\ log' = Append(log, Ev("unknown", idx, Unknown))
              /\ pc' = "for"
              /\ idx' = idx + 1
         ELSE /\ log' = Append(log, Ev("copy", idx, t))
              /\ pc' = "loading"
              /\ idx' = idx
  /\ UNCHANGED <<argv1, dirKind, listing, connOpen, exc>>

\* the COPY INTO raises and the loop goes on
CopyReturnSwallow ==
  /\ pc = "loading"
  /\ \/ /\ log' = Append(log, Ev("copy_done", idx, log[Len(log)].table))
        /\ pc' = "for"
        /\ idx' = idx + 1
        /\ exc' = exc
     \/ /\ log' = Append(log, Ev("copy_raise", idx, log[Len(log)].table))
        /\ pc' = "for"
        /\ idx' = idx + 1
        /\ exc' = exc
  /\ UNCHANGED <<argv1, dirKind, listing, connOpen>>

\* line 43-56, 60-72, 76-88: the COPY INTO returns (and the status line is
\* printed) or raises
CopyReturn ==
  /\ pc = "loading"
  /\ \/ /\ log' = Append(log, Ev("copy_done", idx, log[Len(log)].table))
        /\ pc' = "for"
        /\ idx' = idx + 1
        /\ exc' = exc
     \/ /\ log' = Append(log, Ev("copy_raise", idx, log[Len(log)].table))
        /\ pc' = "finally"
        /\ idx' = idx
        /\ exc' = "copy"
  /\ UNCHANGED <<argv1, dirKind, listing, connOpen>>

\* line 137 with the status printed only when some file was staged
CompletedIfLoaded ==
  /\ pc = "completed"
  /\ log' = IF \E k \in DOMAIN log : log[k].op = "put"
            THEN Append(log, Ev("completed", 0, ""))
            ELSE log
  /\ pc' = "finally"
  /\ UNCHANGED <<argv1, dirKind, listing, idx, connOpen, exc>>

\* line 137: print("Data loading completed!")
Completed ==
  /\ pc = "completed"
  /\ log' = Append(log, Ev("completed", 0, ""))
  /\ pc' = "finally"
  /\ UNCHANGED <<argv1, dirKind, listing, idx, connOpen, exc>>

\* line 139-140: finally: cursor.close()
FinallyCursorClose ==
  /\ pc = "finally"
  /\ \/ /\ log' = Append(log, Ev("cursor_close", 0, ""))
        /\ pc' = "finally_conn_close"
        /\ exc' = exc
     \/ /\ log' = Append(log, Ev("cursor_close_raise", 0, ""))
        /\ pc' = "done"
        /\ exc' = "cursor_close"
  /\ UNCHANGED <<argv1, dirKind, listing, idx, connOpen>>

\* line 141: conn.close()
FinallyConnClose ==
  /\ pc = "finally_conn_close"
  /\ connOpen' = FALSE
  /\ log' = Append(log, Ev("conn_close", 0, ""))
  /\ pc' = "done"
  /\ UNCHANGED <<argv1, dirKind, listing, idx, exc>>

Next ==
  \/ TestConnect
  \/ TestCursor
  \/ TestQuery
  \/ TestCursorClose
  \/ TestConnClose
  \/ LoadConnect
  \/ LoadCursor
  \/ EnterTry
  \/ For
  \/ Upload
  \/ UploadReturn
  \/ RouteFile
  \/ CopyReturn
  \/ Completed
  \/ FinallyCursorClose
  \/ FinallyConnClose

Spec == Init /\ [][Next]_vars

\* main runs on one thread and every call blocks until it returns or raises:
\* a run that can take a step takes one
FairSpec == Spec /\ WF_vars(Next)

(* --------------------------- type invariant ---------------------------- *)

TypeOK ==
  /\ argv1 \in Args
  /\ dirKind \in DirKinds
  /\ idx \in 0..(Len(listing) + 1)
  /\ connOpen \in BOOLEAN
  /\ exc \in { NoExc, "connect", "cursor", "query", "cursor_close",
               "listdir", "put", "copy" }

(* ===================== properties of the loader ======================== *)

\* positions of the log holding one of the operations of S
At(S) == { k \in DOMAIN log : log[k].op \in S }

Count(op) == Cardinality(At({op}))

\* positions of the log holding operation op on listing entry i
AtFile(op, i) == { k \in At({op}) : log[k].idx = i }

IsCsv(i) == EndsWith(listing[i], dotcsv)

CsvEntries == { i \in DOMAIN listing : IsCsv(i) }

\* a and b are the same letter up to case
SameLetter(a, b) ==
  \/ a = b
  \/ \E i \in DOMAIN UpperCh : {a, b} = {UpperCh[i], LowerCh[i]}

\* marker m occurs in name s when letter case is ignored
HasMarker(s, m) ==
  \E p \in 1..(Len(s) - Len(m) + 1) :
    \A k \in 1..Len(m) : SameLetter(s[p + k - 1], m[k])

\* the destination the priority rules give a name
Expected(s) ==
  CASE HasMarker(s, user_profile) -> USER_PROFILES
    [] ~HasMarker(s, user_profile) /\ HasMarker(s, order_book) -> ORDER_BOOK
    [] ~HasMarker(s, user_profile) /\ ~HasMarker(s, order_book)
         /\ HasMarker(s, trade) -> USER_TRADES
    [] OTHER -> Unknown

SameNameAnyCase(s, t) ==
  /\ Len(s) = Len(t)
  /\ \A k \in DOMAIN s : SameLetter(s[k], t[k])

LoadRun == argv1 # "test"

Routed == At({"copy", "unknown"})

(* C1: in a load run, once the connection has been opened it has been      *)
(* closed exactly once when the run ends, in every execution; it is never  *)
(* closed twice.                                                           *)
C1_ClosedExactlyOnce ==
  /\ Count("conn_close") <= 1
  /\ (LoadRun /\ pc = "done" /\ Count("connect") = 1) => Count("conn_close") = 1

(* C2: once the PUT or the COPY of a file has raised, no PUT and no COPY   *)
(* is issued afterwards (neither for a later file nor again for the same   *)
(* one) and "Data loading completed!" is not printed.                      *)
C2_StepFailureAbortsBatch ==
  \A k \in At({"put_raise", "copy_raise"}) :
    /\ \A j \in At({"put", "copy", "unknown"}) : j < k
    /\ Count("completed") = 0
    /\ pc \in {"finally", "finally_conn_close", "done"}

C2_Witness ==
  /\ pc = "done"
  /\ \E k \in At({"copy_raise"}) : \E i \in CsvEntries : i > log[k].idx
  /\ Count("conn_close") = 1

(* C3: every file that load_file routes goes to the table given by the     *)
(* case-insensitive substring rules in priority order user_profile, then   *)
(* order_book, then trade, else Unknown; names differing only in letter    *)
(* case are routed alike.                                                  *)
C3_RoutingByPriority ==
  /\ \A k \in Routed : log[k].table = Expected(listing[log[k].idx])
  /\ \A k \in Routed : (log[k].op = "unknown") = (log[k].table = Unknown)
  /\ \A k, j \in Routed :
       SameNameAnyCase(listing[log[k].idx], listing[log[j].idx])
         => log[k].table = log[j].table

C3_Witness ==
  /\ pc = "done"
  /\ \E k, j \in At({"copy"}) :
       /\ k # j
       /\ log[k].table = USER_TRADES
       /\ log[j].table = USER_TRADES
       /\ listing[log[k].idx] # Lower(listing[log[k].idx])
       /\ SameNameAnyCase(listing[log[k].idx], listing[log[j].idx])
       /\ ~HasMarker(listing[log[k].idx], user_profile)
       /\ ~HasMarker(listing[log[k].idx], order_book)

(* C4 as stated: every routed file whose name contains order_book          *)
(* (ignoring case) is copied into ORDER_BOOK, whatever else it contains.   *)
C4_OrderBookAlways ==
  \A k \in Routed :
    HasMarker(listing[log[k].idx], order_book)
      => log[k].op = "copy" /\ log[k].table = ORDER_BOOK

(* C4 amended: every routed file whose name contains order_book and does   *)
(* not contain user_profile (ignoring case) is copied into ORDER_BOOK,     *)
(* whether or not it also contains trade; one that also contains           *)
(* user_profile is copied into USER_PROFILES.                              *)
C4_OrderBookUnlessUserProfile ==
  \A k \in Routed :
    HasMarker(listing[log[k].idx], order_book)
      => /\ log[k].op = "copy"
         /\ log[k].table = IF HasMarker(listing[log[k].idx], user_profile)
                           THEN USER_PROFILES ELSE ORDER_BOOK

C4_Witness ==
  \E k \in At({"copy_done"}) :
    /\ log[k].table = ORDER_BOOK
    /\ HasMarker(listing[log[k].idx], trade)
    /\ HasMarker(listing[log[k].idx], order_book)

\* the next .csv entry after entry i, or 0
NextCsv(i) ==
  IF \E j \in CsvEntries : j > i
  THEN CHOOSE j \in CsvEntries : j > i /\ \A h \in CsvEntries : h > i => j <= h
  ELSE 0

(* C5: a .csv file matching no marker has exactly one PUT and no COPY,     *)
(* raises nothing, and is followed by the next .csv entry of the listing   *)
(* (or by the completion status when it was the last).                     *)
C5_UnknownIsStagedAndSkipped ==
  \A k \in At({"unknown"}) :
    LET i == log[k].idx IN
    /\ IsCsv(i)
    /\ Expected(listing[i]) = Unknown
    /\ Cardinality(AtFile("put", i)) = 1
    /\ Cardinality(AtFile("put_done", i)) = 1
    /\ AtFile("copy", i) = {}
    /\ k = Len(log) =>
         /\ exc = NoExc
         /\ \/ pc = "for" /\ idx > i
            \/ pc = "load_file" /\ idx = NextCsv(i)
            \/ pc = "completed" /\ NextCsv(i) = 0
    /\ k < Len(log) =>
         IF NextCsv(i) # 0
         THEN log[k + 1] = Ev("put", NextCsv(i), "")
         ELSE log[k + 1] = Ev("completed", 0, "")

C5_Witness ==
  \E k \in At({"unknown"}) :
    /\ k < Len(log)
    /\ log[k + 1].op = "put"
    /\ pc = "done"
    /\ exc = NoExc

(* C6: every .csv entry is staged at most once and, when the run ends      *)
(* without a failure, exactly once; an entry with another extension is     *)
(* never staged or loaded; a staged file gets at most one COPY and that    *)
(* COPY targets the table its name classifies to; the completion status    *)
(* comes after every .csv entry was staged and, when classified, loaded.   *)
C6_EachCsvStagedAndLoadedOnce ==
  /\ \A k \in DOMAIN log : log[k].idx # 0 => log[k].idx \in CsvEntries
  /\ \A i \in DOMAIN listing :
       /\ Cardinality(AtFile("put", i)) <= 1
       /\ Cardinality(AtFile("copy", i)) <= 1
       /\ \A k \in AtFile("copy", i) :
            /\ log[k].table = Expected(listing[i])
            /\ log[k].table \in {USER_PROFILES, ORDER_BOOK, USER_TRADES}
            /\ \E j \in AtFile("put_done", i) : j < k
  /\ \A c \in At({"completed"}) :
       /\ \A k \in DOMAIN log : log[k].idx # 0 => k < c
       /\ \A i \in CsvEntries :
            /\ Cardinality(AtFile("put", i)) = 1
            /\ Cardinality(AtFile("put_done", i)) = 1
            /\ Expected(listing[i]) # Unknown =>
                 /\ Cardinality(AtFile("copy", i)) = 1
                 /\ Cardinality(AtFile("copy_done", i)) = 1
  /\ (LoadRun /\ pc = "done" /\ exc = NoExc) => Count("completed") = 1

C6_Witness ==
  /\ LoadRun
  /\ pc = "done"
  /\ exc = NoExc
  /\ Count("completed") = 1
  /\ Cardinality(CsvEntries) >= 2
  /\ Cardinality(DOMAIN listing \ CsvEntries) >= 1
  /\ Count("copy_done") >= 2

\* the operation that ends a step
Ends(op) == IF op = "put" THEN {"put_done", "put_raise"}
            ELSE {"copy_done", "copy_raise"}

(* C7: PUTs and COPYs happen only between the opening and the closing of   *)
(* the connection; a file's COPY is issued only after its PUT returned;    *)
(* every step ends before the next one is issued, files being taken in     *)
(* listing order.                                                          *)
C7_StepsInOrder ==
  /\ \A k \in At({"put", "copy"}) :
       /\ \E c \in At({"connect"}) : c < k
       /\ \A c \in At({"conn_close"}) : k < c
       /\ connOpen \/ Count("conn_close") = 1
       /\ IF k = Len(log)
          THEN pc = (IF log[k].op = "put" THEN "uploading" ELSE "loading")
          ELSE /\ log[k + 1].op \in Ends(log[k].op)
               /\ log[k + 1].idx = log[k].idx
  /\ \A k \in At({"copy"}) : log[k - 1] = Ev("put_done", log[k].idx, "")
  /\ \A k, j \in At({"put"}) : k < j => log[k].idx < log[j].idx
  /\ \A k \in At({"connect", "connect_raise"}) : k = 1
  /\ \A k \in At({"conn_close"}) : k = Len(log) /\ pc = "done"
  /\ pc \in {"uploading", "loading"} => log[Len(log)].op \in {"put", "copy"}

C7_Witness ==
  /\ pc = "done"
  /\ Count("put_done") >= 2
  /\ Count("copy_done") >= 2
  /\ Count("conn_close") = 1

(* C8: every run that opened the connection has released it when it ends,  *)
(* whether it ends normally or with an error, in the self-test run and in  *)
(* the load run.                                                           *)
C8_ReleasedOnEveryExit ==
  (pc = "done" /\ Count("connect") = 1) => ~connOpen /\ Count("conn_close") = 1

(* C9: when opening the connection fails the run ends at once: nothing is  *)
(* staged, no COPY is issued, no close is attempted and the completion     *)
(* status is not printed.                                                  *)
C9_ConnectFailureAborts ==
  Count("connect_raise") > 0 =>
    /\ log = <<Ev("connect_raise", 0, "")>>
    /\ pc = "done"
    /\ exc = "connect"
    /\ ~connOpen

C9_Witness ==
  /\ Count("connect_raise") = 1
  /\ LoadRun
  /\ dirKind = "dir"
  /\ CsvEntries # {}

(* C10: with argument "test" the run issues the version query and never a  *)
(* PUT, a COPY or the completion status, whatever sample_data/test holds;  *)
(* with any other argument the version query is never issued.              *)
C10_SelfTestOnlyForTest ==
  /\ argv1 = "test" =>
       /\ At({"put", "copy", "unknown", "completed"}) = {}
       /\ pc \in {"test_cursor_close", "test_conn_close"} => Count("version") = 1
       /\ (pc = "done" /\ exc \in {NoExc, "query", "cursor_close"})
            => Count("version") = 1
  /\ argv1 # "test" =>
       /\ Count("version") = 0
       /\ pc \notin {"test_cursor", "test_query", "test_cursor_close",
                     "test_conn_close"}

C10_Witness ==
  /\ argv1 = "test"
  /\ dirKind = "dir"
  /\ \E i \in CsvEntries : Expected(listing[i]) # Unknown
  /\ pc = "done"
  /\ Count("version_done") = 1
  /\ Count("conn_close") = 1

\* a load run over a directory that exists and lists no .csv entry
NoCsvRun == LoadRun /\ dirKind = "dir" /\ CsvEntries = {}

\* the calls and the status line of a load run that had nothing to load
NothingLoadedLog ==
  << Ev("connect", 0, ""), Ev("cursor", 0, ""), Ev("completed", 0, ""),
     Ev("cursor_close", 0, ""), Ev("conn_close", 0, "") >>

(* C11: a load run over an empty directory, or one without any entry       *)
(* ending in .csv, issues no PUT and no COPY, meets no error inside the    *)
(* try block, and terminates; when no client call raises it ends having    *)
(* printed the completion status and closed the connection.                *)
C11_NoCsvRunCompletes ==
  /\ [](NoCsvRun =>
         /\ At({"put", "copy", "unknown", "put_raise", "copy_raise"}) = {}
         /\ exc \in {NoExc, "connect", "cursor", "cursor_close"}
         /\ pc \in {"finally", "finally_conn_close"} => Count("completed") = 1
         /\ (pc = "done" /\ exc = NoExc) => log = NothingLoadedLog /\ ~connOpen)
  /\ (NoCsvRun ~> (pc = "done"))

C11_Witness ==
  /\ NoCsvRun
  /\ Len(listing) >= 1
  /\ pc = "done"
  /\ log = NothingLoadedLog

\* a load run whose directory sample_data/<argv[1]> does not exist
MissingDirRun == LoadRun /\ dirKind = "missing"

(* C12: a load run whose directory does not exist still opens the          *)
(* connection, issues no PUT and no COPY, reports no error for the missing *)
(* directory, goes from the try straight to the completion status, and,    *)
(* when no client call raises, ends with the same calls and status line    *)
(* as a run over an empty directory, the connection closed.                *)
C12_MissingDirectoryLooksEmpty ==
  MissingDirRun =>
    /\ pc # "main" => log[1].op \in {"connect", "connect_raise"}
    /\ At({"put", "copy", "unknown", "put_raise", "copy_raise"}) = {}
    /\ pc \notin {"for", "load_file", "uploading", "route", "loading"}
    /\ exc \in {NoExc, "connect", "cursor", "cursor_close"}
    /\ (Count("cursor") = 1 /\ pc \notin {"try", "completed"})
         => Count("completed") = 1
    /\ (pc = "done" /\ exc = NoExc) => log = NothingLoadedLog /\ ~connOpen

C12_Witness ==
  /\ MissingDirRun
  /\ pc = "done"
  /\ exc = NoExc
  /\ Count("completed") = 1
  /\ Count("conn_close") = 1
  /\ ~connOpen

====
